---- MODULE Spec2Model ----
(***************************************************************************)
(* Model of the PLTL/LTL trace evaluator of SySLite2                       *)
(* (edu/uiowa/parser/Tracer.py, class Trace).                              *)
(*                                                                         *)
(* A Trace object holds the state table (traceVector / table), the lasso   *)
(* index and the mutable flag `loop`.  The queries truthValue, check_truth *)
(* and check_truth1 are run to completion by one action each; the value    *)
(* they return and the flag they started from are kept in `last` until the *)
(* caller has consumed them.  Evaluations that share one Trace object      *)
(* between threads are followed frame by frame in `threads`.               *)
(***************************************************************************)
EXTENDS Integers, Sequences, FiniteSets, TLC

VARIABLES literals, traceVector, lasso, loop, last, threads

vars == <<literals, traceVector, lasso, loop, last, threads>>

(***************************************************************************)
(* Bounds of the model.                                                    *)
(***************************************************************************)
\* longest trace (number of time steps) that is constructed
MaxLen == 3
\* deepest nesting of truthValue frames that is followed before the
\* evaluation is given up with a RecursionError (the interpreter's recursion
\* limit, scaled down to the traces of the model)
MaxDepth == 28

(***************************************************************************)
(* Formulas: PLTLFormula([label, left, right]); an absent child is None.   *)
(***************************************************************************)
None == <<>>

PLTLFormula(args) == <<args[1], args[2], args[3]>>

label(f) == f[1]
left(f) == f[2]
right(f) == f[3]

_isLeaf(f) == left(f) = None /\ right(f) = None

Atom(a) == PLTLFormula(<<a, None, None>>)
Un(op, f) == PLTLFormula(<<op, f, None>>)
Bin(op, f, g) == PLTLFormula(<<op, f, g>>)

UnaryOps == {"G", "H", "O", "F", "!", "Y", "X"}
BinaryOps == {"&", "|", "S", "U", "=>"}

\* the literal lists (Lit) a trace is constructed with
LiteralLists == {<<"p">>, <<"p", "q">>}

\* the formulas over p alone
FormulasP ==
    {Atom(a) : a \in {"p", "TRUE", "FALSE"}}
    \cup {Un(op, Atom(a)) : op \in UnaryOps, a \in {"p", "TRUE", "FALSE"}}
    \cup {Un(op, Un(g, Atom("p"))) : op \in UnaryOps, g \in {"X", "F", "G"}}
    \cup {Bin(op, Atom("p"), Un("F", Atom("p"))) : op \in BinaryOps}
    \cup {Bin(op, Un("F", Atom("p")), Un("G", Atom("p"))) : op \in BinaryOps}
    \cup {Bin(op, Un("X", Atom("p")), Un("F", Atom("p"))) : op \in BinaryOps}

\* the formulas over p and q
FormulasPQ ==
    {Atom("q")}
    \cup {Bin(op, Atom("p"), Atom("q")) : op \in BinaryOps}
    \cup {Bin(op, Un("F", Atom("p")), Un("F", Atom("q"))) : op \in {"U", "&"}}
    \cup {Un(op, Bin("U", Atom("p"), Atom("q"))) : op \in {"X", "F"}}

\* the formulas handed to the queries of a trace: those over its literals
\* (a column that a formula does not read has no effect on its value)
Formulas(lits) == IF Len(lits) = 1 THEN FormulasP ELSE FormulasPQ

\* formulas that read r, an atom no trace of the model declares
FormulasUndeclared ==
    {Atom("r")}
    \cup {Un(op, Atom("r")) : op \in UnaryOps}
    \cup {Un(op, Un("X", Atom("r"))) : op \in {"F", "G", "!"}}
    \cup {Bin(op, Atom("p"), Atom("r")) : op \in BinaryOps}
    \cup {Bin(op, Atom("r"), Atom("p")) : op \in BinaryOps}

(***************************************************************************)
(* Trace fields derived in __init__.                                       *)
(***************************************************************************)
traceLength == Len(traceVector)

\* self.vars = len(self.traceVector[0])
nvars == Len(traceVector[1])

\* self.table[self.literals[v], t] = self.traceVector[t][v]: the keys of the
\* table and the value stored under a key
inTable(a, t) ==
    /\ \E v \in 1..nvars : literals[v] = a
    /\ t \in 0..(traceLength - 1)

table(a, t) ==
    LET v == CHOOSE w \in 1..nvars : literals[w] = a
    IN  traceVector[t + 1][v]

(***************************************************************************)
(* Results of a call: the value returned, the flag left behind, and the    *)
(* way the call ended ("ok", or the exception that left it).               *)
(***************************************************************************)
Ret(v, lp) == [val |-> v, loop |-> lp, err |-> "ok"]
Raise(e, lp) == [val |-> FALSE, loop |-> lp, err |-> e]

\* pre that steps forward
pre_forward(pos) == pos + 1

pre(pos) == IF pos = 0 THEN -1 ELSE pos - 1

\* next without the one-shot guard: the wrap is taken again and again
next_unguarded(pos, lp) ==
    IF pos < traceLength - 1 THEN [idx |-> pos + 1, loop |-> lp]
    ELSE [idx |-> lasso, loop |-> lp]

\* next whose wrap goes back to index 0 instead of the lasso index
next_wraps_to_start(pos, lp) ==
    IF pos < traceLength - 1 THEN [idx |-> pos + 1, loop |-> lp]
    ELSE IF ~lp THEN [idx |-> 0, loop |-> TRUE]
    ELSE [idx |-> -1, loop |-> lp]

\* next that clears the flag when it has no successor left
next_rearmed(pos, lp) ==
    IF pos < traceLength - 1 THEN [idx |-> pos + 1, loop |-> lp]
    ELSE IF ~lp THEN [idx |-> lasso, loop |-> TRUE]
    ELSE [idx |-> -1, loop |-> FALSE]

\* next returns the successor index and the flag it leaves
next(pos, lp) ==
    IF pos < traceLength - 1 THEN [idx |-> pos + 1, loop |-> lp]
    ELSE IF ~lp THEN [idx |-> lasso, loop |-> TRUE]
    ELSE [idx |-> -1, loop |-> lp]

\* next1 of a finite trace: no successor at the last index
next1_no_wrap(pos) == IF pos < traceLength - 1 THEN pos + 1 ELSE -1

next1(pos) == IF pos < traceLength - 1 THEN pos + 1 ELSE lasso

RECURSIVE truthValue(_, _, _, _)

\* 'O' branch
tvO(f, i, lp, d) ==
    LET var == truthValue(left(f), i, lp, d)
    IN  IF var.err # "ok" THEN var
        ELSE IF i > 0
             THEN LET o_var == truthValue(f, pre(i), var.loop, d)
                  IN  IF o_var.err # "ok" THEN o_var
                      ELSE Ret(var.val \/ o_var.val, o_var.loop)
             ELSE var

\* 'H' branch
tvH(f, i, lp, d) ==
    LET var == truthValue(left(f), i, lp, d)
    IN  IF var.err # "ok" THEN var
        ELSE IF i > 0
             THEN LET h_var == truthValue(f, pre(i), var.loop, d)
                  IN  IF h_var.err # "ok" THEN h_var
                      ELSE Ret(var.val /\ h_var.val, h_var.loop)
             ELSE var

\* '!' branch that forgets the negation
tvNot_dropped(f, i, lp, d) == truthValue(left(f), i, lp, d)

\* '!' branch
tvNot(f, i, lp, d) ==
    LET var == truthValue(left(f), i, lp, d)
    IN  IF var.err # "ok" THEN var ELSE Ret(~var.val, var.loop)

\* 'Y' branch of a weak yesterday: the operand itself at index 0
tvY_weak(f, i, lp, d) ==
    IF i > 0 THEN truthValue(left(f), pre(i), lp, d)
    ELSE truthValue(left(f), i, lp, d)

\* 'Y' branch
tvY(f, i, lp, d) ==
    IF i > 0 THEN truthValue(left(f), pre(i), lp, d) ELSE Ret(FALSE, lp)

\* 'S' branch
tvS(f, i, lp, d) ==
    LET g_var == truthValue(right(f), i, lp, d)
    IN  IF g_var.err # "ok" THEN g_var
        ELSE IF i > 0
             THEN LET var == truthValue(left(f), i, g_var.loop, d)
                  IN  IF var.err # "ok" THEN var
                      ELSE LET s_var == truthValue(f, pre(i), var.loop, d)
                           IN  IF s_var.err # "ok" THEN s_var
                               ELSE Ret(g_var.val \/ (var.val /\ s_var.val),
                                        s_var.loop)
             ELSE g_var

\* 'X' branch stepping with the guarded successor next
tvX_guarded(f, i, lp, d) ==
    LET n == next(i, lp)
    IN  IF n.idx = -1 THEN Ret(FALSE, n.loop)
        ELSE truthValue(left(f), n.idx, n.loop, d)

\* 'X' branch
tvX(f, i, lp, d) ==
    LET nindex == next1(i)
    IN  IF nindex = -1 THEN Ret(FALSE, lp)
        ELSE truthValue(left(f), nindex, lp, d)

\* 'U' branch that accepts when the successor is exhausted
tvU_accepts_at_end(f, i, lp, d) ==
    LET var_a == truthValue(left(f), i, lp, d)
    IN  IF var_a.err # "ok" THEN var_a
        ELSE LET var_b == truthValue(right(f), i, var_a.loop, d)
             IN  IF var_b.err # "ok" THEN var_b
                 ELSE IF var_b.val THEN Ret(TRUE, var_b.loop)
                 ELSE IF var_a.val /\ ~var_b.val
                      THEN LET n == next(i, var_b.loop)
                           IN  IF n.idx = -1 THEN Ret(TRUE, n.loop)
                               ELSE truthValue(f, n.idx, n.loop, d)
                      ELSE Ret(FALSE, var_b.loop)

\* 'U' branch without the unrolling: the right operand at i decides
tvU_now(f, i, lp, d) ==
    LET var_a == truthValue(left(f), i, lp, d)
    IN  IF var_a.err # "ok" THEN var_a
        ELSE truthValue(right(f), i, var_a.loop, d)

\* 'U' branch
tvU(f, i, lp, d) ==
    LET var_a == truthValue(left(f), i, lp, d)
    IN  IF var_a.err # "ok" THEN var_a
        ELSE LET var_b == truthValue(right(f), i, var_a.loop, d)
             IN  IF var_b.err # "ok" THEN var_b
                 ELSE IF var_b.val THEN Ret(TRUE, var_b.loop)
                 ELSE IF var_a.val /\ ~var_b.val
                      THEN LET n == next(i, var_b.loop)
                           IN  IF n.idx = -1 THEN Ret(FALSE, n.loop)
                               ELSE truthValue(f, n.idx, n.loop, d)
                      ELSE Ret(FALSE, var_b.loop)

\* 'F' branch that looks at the present index only: U(FALSE, left)
tvF_now(f, i, lp, d) ==
    LET fml1 == PLTLFormula(<<"FALSE", None, None>>)
        fml2 == PLTLFormula(<<"U", fml1, left(f)>>)
    IN  truthValue(fml2, i, lp, d)

\* 'F' branch
tvF(f, i, lp, d) ==
    LET fml1 == PLTLFormula(<<"TRUE", None, None>>)
        fml2 == PLTLFormula(<<"U", fml1, left(f)>>)
    IN  truthValue(fml2, i, lp, d)

\* 'G' branch of the finite-trace kind (the variant left commented out in
\* the source): the operand now and G at the next index, no wrap
tvG_finite(f, i, lp, d) ==
    LET var == truthValue(left(f), i, lp, d)
    IN  IF var.err # "ok" THEN var
        ELSE IF i < traceLength - 1
             THEN LET n == next(i, var.loop)
                      g_var == truthValue(f, n.idx, n.loop, d)
                  IN  IF g_var.err # "ok" THEN g_var
                      ELSE Ret(var.val /\ g_var.val, g_var.loop)
             ELSE var

\* 'G' branch
tvG(f, i, lp, d) ==
    LET fml1 == PLTLFormula(<<"!", left(f), None>>)
        fml2 == PLTLFormula(<<"F", fml1, None>>)
        fml3 == PLTLFormula(<<"!", fml2, None>>)
    IN  truthValue(fml3, i, lp, d)

\* '&' branch
tvAnd(f, i, lp, d) ==
    LET left_var == truthValue(left(f), i, lp, d)
    IN  IF left_var.err # "ok" THEN left_var
        ELSE LET right_var == truthValue(right(f), i, left_var.loop, d)
             IN  IF right_var.err # "ok" THEN right_var
                 ELSE Ret(left_var.val /\ right_var.val, right_var.loop)

\* '=>' branch
tvImp(f, i, lp, d) ==
    LET left_var == truthValue(left(f), i, lp, d)
    IN  IF left_var.err # "ok" THEN left_var
        ELSE LET right_var == truthValue(right(f), i, left_var.loop, d)
             IN  IF right_var.err # "ok" THEN right_var
                 ELSE Ret(~left_var.val \/ right_var.val, right_var.loop)

\* '|' branch
tvOr(f, i, lp, d) ==
    LET left_var == truthValue(left(f), i, lp, d)
    IN  IF left_var.err # "ok" THEN left_var
        ELSE LET right_var == truthValue(right(f), i, left_var.loop, d)
             IN  IF right_var.err # "ok" THEN right_var
                 ELSE Ret(left_var.val \/ right_var.val, right_var.loop)

\* atom branch that takes an absent key for FALSE
tvAtom_default_false(f, i, lp) ==
    IF _isLeaf(f)
    THEN IF inTable(label(f), i)
         THEN Ret(table(label(f), i), lp)
         ELSE Ret(FALSE, lp)
    ELSE Raise("None", lp)

\* atom branch: a leaf is looked up in the table (KeyError when the key is
\* absent); any other node with an unknown label prints and returns None
tvAtom(f, i, lp) ==
    IF _isLeaf(f)
    THEN IF inTable(label(f), i)
         THEN Ret(table(label(f), i), lp)
         ELSE Raise("KeyError", lp)
    ELSE Raise("None", lp)

\* truthValue(f, i) run with the flag lp; d frames may still be entered
truthValue(f, i, lp, d) ==
    IF d = 0 THEN Raise("RecursionError", lp)
    ELSE CASE label(f) = "O" -> tvO(f, i, lp, d - 1)
           [] label(f) = "H" -> tvH(f, i, lp, d - 1)
           [] label(f) = "!" -> tvNot(f, i, lp, d - 1)
           [] label(f) = "Y" -> tvY(f, i, lp, d - 1)
           [] label(f) = "S" -> tvS(f, i, lp, d - 1)
           [] label(f) = "X" -> tvX(f, i, lp, d - 1)
           [] label(f) = "U" -> tvU(f, i, lp, d - 1)
           [] label(f) = "F" -> tvF(f, i, lp, d - 1)
           [] label(f) = "G" -> tvG(f, i, lp, d - 1)
           [] label(f) = "&" -> tvAnd(f, i, lp, d - 1)
           [] label(f) = "=>" -> tvImp(f, i, lp, d - 1)
           [] label(f) = "|" -> tvOr(f, i, lp, d - 1)
           [] label(f) = "TRUE" -> Ret(TRUE, lp)
           [] label(f) = "FALSE" -> Ret(FALSE, lp)
           [] OTHER -> tvAtom(f, i, lp)

\* the loop of check_truth from `index` on
RECURSIVE check_truth_loop(_, _, _)
check_truth_loop(f, index, lp) ==
    IF index >= traceLength THEN Ret(TRUE, lp)
    ELSE LET v == truthValue(f, index, lp, MaxDepth)
         IN  IF v.err # "ok" THEN v
             ELSE IF ~v.val THEN Ret(FALSE, v.loop)
             ELSE check_truth_loop(f, index + 1, v.loop)

\* check_truth that looks at index 0 only
check_truth_first_index(f, lp) == truthValue(f, 0, lp, MaxDepth)

check_truth(f, lp) == check_truth_loop(f, 0, lp)

\* check_truth1 without the reset of the flag
check_truth1_no_reset(f, lp) == truthValue(f, 0, lp, MaxDepth)

\* self.loop = False; return self.truthValue(f, 0)
check_truth1(f, lp) == truthValue(f, 0, FALSE, MaxDepth)

(***************************************************************************)
(* truthValue frame by frame.  A configuration holds the stack of          *)
(* truthValue frames of one evaluation, the value the last finished frame  *)
(* returned (ret), the exception that ended the evaluation (err), the flag *)
(* self.loop as the evaluation reads and writes it, and two counts: the    *)
(* steps from the last index back to the lasso index taken through next    *)
(* (wraps) and through next1 (wraps1), and the indices that truthValue was  *)
(* called with (visited) and that the table was looked up at (looked).     *)
(* A frame holds its arguments f and                                       *)
(* i, the place pc where it goes on after the call it is waiting for, and  *)
(* the values a and b of its local variables.                              *)
(***************************************************************************)
frame(f, i) == [f |-> f, i |-> i, pc |-> 0, a |-> FALSE, b |-> FALSE]

top(c) == c.stack[Len(c.stack)]

\* the evaluation is left by an exception
raise(c, e) == [c EXCEPT !.stack = <<>>, !.err = e]

\* the top frame keeps pc, a and b and calls truthValue(g, j)
invoke(c, pc, a, b, g, j) ==
    IF Len(c.stack) >= MaxDepth THEN raise(c, "RecursionError")
    ELSE [c EXCEPT !.stack =
            Append([c.stack EXCEPT ![Len(c.stack)] =
                       [f |-> top(c).f, i |-> top(c).i, pc |-> pc,
                        a |-> a, b |-> b]],
                   frame(g, j)),
            !.visited = @ \cup {j}]

\* the top frame returns v
return(c, v) ==
    [c EXCEPT !.stack = SubSeq(c.stack, 1, Len(c.stack) - 1), !.ret = v]

stepO(c, f, i, pc, a) ==
    CASE pc = 0 -> invoke(c, 1, FALSE, FALSE, left(f), i)
      [] pc = 1 -> IF i > 0 THEN invoke(c, 2, c.ret, FALSE, f, pre(i))
                   ELSE return(c, c.ret)
      [] pc = 2 -> return(c, a \/ c.ret)

stepH(c, f, i, pc, a) ==
    CASE pc = 0 -> invoke(c, 1, FALSE, FALSE, left(f), i)
      [] pc = 1 -> IF i > 0 THEN invoke(c, 2, c.ret, FALSE, f, pre(i))
                   ELSE return(c, c.ret)
      [] pc = 2 -> return(c, a /\ c.ret)

stepNot(c, f, i, pc) ==
    CASE pc = 0 -> invoke(c, 1, FALSE, FALSE, left(f), i)
      [] pc = 1 -> return(c, ~c.ret)

\* 'Y' branch without the test of i: the predecessor pre(i) is used as it is
stepY_unguarded(c, f, i, pc) ==
    CASE pc = 0 -> invoke(c, 1, FALSE, FALSE, left(f), pre(i))
      [] pc = 1 -> return(c, c.ret)

stepY(c, f, i, pc) ==
    CASE pc = 0 -> IF i > 0 THEN invoke(c, 1, FALSE, FALSE, left(f), pre(i))
                   ELSE return(c, FALSE)
      [] pc = 1 -> return(c, c.ret)

stepS(c, f, i, pc, a, b) ==
    CASE pc = 0 -> invoke(c, 1, FALSE, FALSE, right(f), i)
      [] pc = 1 -> IF i > 0 THEN invoke(c, 2, c.ret, FALSE, left(f), i)
                   ELSE return(c, c.ret)
      [] pc = 2 -> invoke(c, 3, a, c.ret, f, pre(i))
      [] pc = 3 -> return(c, a \/ (b /\ c.ret))

stepX(c, f, i, pc) ==
    CASE pc = 0 ->
           LET nindex == next1(i)
               c1 == IF i < traceLength - 1 THEN c
                     ELSE [c EXCEPT !.wraps1 = @ + 1]
           IN  IF nindex = -1 THEN return(c, FALSE)
               ELSE invoke(c1, 1, FALSE, FALSE, left(f), nindex)
      [] pc = 1 -> return(c, c.ret)

stepU(c, f, i, pc, a) ==
    CASE pc = 0 -> invoke(c, 1, FALSE, FALSE, left(f), i)
      [] pc = 1 -> invoke(c, 2, c.ret, FALSE, right(f), i)
      [] pc = 2 ->
           IF c.ret THEN return(c, TRUE)
           ELSE IF a /\ ~c.ret
                THEN LET n == next(i, c.loop)
                         c1 == [c EXCEPT !.loop = n.loop]
                         c2 == IF i < traceLength - 1 THEN c1
                               ELSE [c1 EXCEPT !.wraps = @ + 1]
                     IN  IF n.idx = -1 THEN return(c1, FALSE)
                         ELSE invoke(c2, 3, a, FALSE, f, n.idx)
                ELSE return(c, FALSE)
      [] pc = 3 -> return(c, c.ret)

\* 'F' branch that rewrites its own node into the U node
stepF_in_place(c, f, i, pc) ==
    LET fml1 == PLTLFormula(<<"TRUE", None, None>>)
        fml2 == PLTLFormula(<<"U", fml1, left(f)>>)
    IN  [c EXCEPT !.stack[Len(c.stack)] = frame(fml2, i)]

stepF(c, f, i, pc) ==
    CASE pc = 0 ->
           LET fml1 == PLTLFormula(<<"TRUE", None, None>>)
               fml2 == PLTLFormula(<<"U", fml1, left(f)>>)
           IN  invoke(c, 1, FALSE, FALSE, fml2, i)
      [] pc = 1 -> return(c, c.ret)

stepG(c, f, i, pc) ==
    CASE pc = 0 ->
           LET fml1 == PLTLFormula(<<"!", left(f), None>>)
               fml2 == PLTLFormula(<<"F", fml1, None>>)
               fml3 == PLTLFormula(<<"!", fml2, None>>)
           IN  invoke(c, 1, FALSE, FALSE, fml3, i)
      [] pc = 1 -> return(c, c.ret)

stepAnd(c, f, i, pc, a) ==
    CASE pc = 0 -> invoke(c, 1, FALSE, FALSE, left(f), i)
      [] pc = 1 -> invoke(c, 2, c.ret, FALSE, right(f), i)
      [] pc = 2 -> return(c, a /\ c.ret)

stepImp(c, f, i, pc, a) ==
    CASE pc = 0 -> invoke(c, 1, FALSE, FALSE, left(f), i)
      [] pc = 1 -> invoke(c, 2, c.ret, FALSE, right(f), i)
      [] pc = 2 -> return(c, ~a \/ c.ret)

stepOr(c, f, i, pc, a) ==
    CASE pc = 0 -> invoke(c, 1, FALSE, FALSE, left(f), i)
      [] pc = 1 -> invoke(c, 2, c.ret, FALSE, right(f), i)
      [] pc = 2 -> return(c, a \/ c.ret)

stepAtom(c, f, i) ==
    IF _isLeaf(f)
    THEN LET c1 == [c EXCEPT !.looked = @ \cup {i}]
         IN  IF inTable(label(f), i) THEN return(c1, table(label(f), i))
             ELSE raise(c1, "KeyError")
    ELSE raise(c, "None")

\* the top frame runs up to its next call or its return
step(c) ==
    LET f == top(c).f
        i == top(c).i
        pc == top(c).pc
        a == top(c).a
        b == top(c).b
    IN  CASE label(f) = "O" -> stepO(c, f, i, pc, a)
          [] label(f) = "H" -> stepH(c, f, i, pc, a)
          [] label(f) = "!" -> stepNot(c, f, i, pc)
          [] label(f) = "Y" -> stepY(c, f, i, pc)
          [] label(f) = "S" -> stepS(c, f, i, pc, a, b)
          [] label(f) = "X" -> stepX(c, f, i, pc)
          [] label(f) = "U" -> stepU(c, f, i, pc, a)
          [] label(f) = "F" -> stepF(c, f, i, pc)
          [] label(f) = "G" -> stepG(c, f, i, pc)
          [] label(f) = "&" -> stepAnd(c, f, i, pc, a)
          [] label(f) = "=>" -> stepImp(c, f, i, pc, a)
          [] label(f) = "|" -> stepOr(c, f, i, pc, a)
          [] label(f) = "TRUE" -> return(c, TRUE)
          [] label(f) = "FALSE" -> return(c, FALSE)
          [] OTHER -> stepAtom(c, f, i)

\* the evaluation is about to call next at the last index, the one place
\* where truthValue reads and writes self.loop
AtLoopAccess(c) ==
    /\ c.stack # <<>>
    /\ label(top(c).f) = "U"
    /\ top(c).pc = 2
    /\ ~c.ret
    /\ top(c).a
    /\ ~(top(c).i < traceLength - 1)

\* the evaluation goes on by itself up to its next access to self.loop, or
\* to its end
RECURSIVE run(_)
run(c) ==
    IF c.stack = <<>> \/ AtLoopAccess(c) THEN c ELSE run(step(c))

\* the query op(f) goes on up to its next access to self.loop or to its end:
\* truthValue and check_truth1 end with their one evaluation, check_truth
\* calls truthValue(f, index) for the next index while the last one returned
\* True and an index is left
RECURSIVE sweep(_, _, _)
sweep(op, f, c) ==
    LET c1 == run(c)
    IN  IF /\ op = "check_truth"
           /\ c1.stack = <<>>
           /\ c1.err = "ok"
           /\ c1.ret
           /\ c1.index + 1 < traceLength
        THEN sweep(op, f, [c1 EXCEPT !.stack = <<frame(f, c1.index + 1)>>,
                                     !.index = c1.index + 1,
                                     !.visited = @ \cup {c1.index + 1}])
        ELSE c1

(***************************************************************************)
(* The constructor.  The trace text `data` is a sequence of characters,    *)
(* "<v>,<v>;<v>,<v>...", optionally followed by "::<lasso>".               *)
(***************************************************************************)
\* longest text of states (before the lasso suffix) handed to Trace
MaxText == 3

\* data.find(c): the 0-based index of the first c, -1 when there is none
find(data, c) ==
    IF \E k \in 1..Len(data) : data[k] = c
    THEN (CHOOSE k \in 1..Len(data) :
             data[k] = c /\ \A j \in 1..(k - 1) : data[j] # c) - 1
    ELSE -1

\* s.split(sep): the pieces between the separators, one piece (s itself,
\* possibly empty) when there is no separator
RECURSIVE split(_, _)
split(s, sep) ==
    LET k == find(s, sep)
    IN  IF k = -1 THEN <<s>>
        ELSE <<SubSeq(s, 1, k)>> \o split(SubSeq(s, k + 2, Len(s)), sep)

lower_char(c) ==
    CASE c = "Y" -> "y" [] c = "E" -> "e" [] c = "S" -> "s"
      [] c = "T" -> "t" [] c = "R" -> "r" [] c = "U" -> "u"
      [] OTHER -> c

lower(v) == [k \in 1..Len(v) |-> lower_char(v[k])]

str2bool(v) ==
    lower(v) \in {<<"y", "e", "s">>, <<"t", "r", "u", "e">>, <<"t">>, <<"1">>}

Digits == {"0", "1", "2", "3", "4", "5", "6", "7", "8", "9"}

digit_value(c) ==
    CASE c = "0" -> 0 [] c = "1" -> 1 [] c = "2" -> 2 [] c = "3" -> 3
      [] c = "4" -> 4 [] c = "5" -> 5 [] c = "6" -> 6 [] c = "7" -> 7
      [] c = "8" -> 8 [] c = "9" -> 9

RECURSIVE digits_value(_)
digits_value(s) ==
    IF s = <<>> THEN 0
    ELSE 10 * digits_value(SubSeq(s, 1, Len(s) - 1)) + digit_value(s[Len(s)])

\* int(s) for a text of an optional sign and decimal digits; anything else
\* is a ValueError
int(s) ==
    LET neg == s # <<>> /\ s[1] = "-"
        body == IF neg THEN SubSeq(s, 2, Len(s)) ELSE s
    IN  IF body # <<>> /\ \A k \in 1..Len(body) : body[k] \in Digits
        THEN [val |-> IF neg THEN 0 - digits_value(body) ELSE digits_value(body),
              err |-> "ok"]
        ELSE [val |-> 0, err |-> "ValueError"]

\* Trace.__init__(data, Id, Lit): the fields of the object, or the
\* exception that leaves the constructor
__init__(data, Lit) ==
    LET lasso_index == find(data, ":")
        lasso_r == IF lasso_index # -1
                   THEN int(SubSeq(data, lasso_index + 3, Len(data)))
                   ELSE [val |-> 0, err |-> "ok"]
        data1 == IF lasso_index # -1 THEN SubSeq(data, 1, lasso_index) ELSE data
        stamps == split(data1, ";")
        tv == [t \in 1..Len(stamps) |->
                 LET cells == split(stamps[t], ",")
                 IN  [v \in 1..Len(cells) |-> str2bool(cells[v])]]
        nv == Len(tv[1])
        lits == IF Lit = None
                THEN [v \in 1..nv |-> "p" \o ToString(v - 1)]
                ELSE Lit
        err == IF lasso_r.err # "ok" THEN lasso_r.err
               ELSE IF nv > Len(lits) \/ \E t \in 1..Len(tv) : Len(tv[t]) < nv
                    THEN "IndexError"
                    ELSE "ok"
    IN  [lasso |-> lasso_r.val, traceVector |-> tv, literals |-> lits,
         err |-> err]

(***************************************************************************)
(* The state machine.                                                      *)
(***************************************************************************)
NoCall ==
    [op |-> "none", f |-> None, i |-> 0, loop0 |-> FALSE,
     val |-> FALSE, err |-> "ok"]

Call(op, f, i, r) ==
    [op |-> op, f |-> f, i |-> i, loop0 |-> loop, val |-> r.val, err |-> r.err]

\* the threads that hold the Trace object
Threads == {1, 2}

\* a thread that has made no query
Idle ==
    [status |-> "idle", op |-> "none", f |-> None, i |-> 0, loop0 |-> FALSE,
     disturbed |-> FALSE, stack |-> <<>>, ret |-> FALSE, err |-> "ok",
     wraps |-> 0, wraps1 |-> 0, visited |-> {}, looked |-> {}, index |-> 0]

\* Trace(data, Id, Lit): every trace of 1..MaxLen time steps over the
\* literals Lit, with a lasso index inside the trace
Init ==
    /\ literals \in LiteralLists
    /\ traceVector \in UNION {[1..n -> [1..Len(literals) -> BOOLEAN]] : n \in 1..MaxLen}
    /\ lasso \in 0..(Len(traceVector) - 1)
    /\ loop = FALSE
    /\ last = NoCall
    /\ threads = [t \in Threads |-> Idle]

TruthValue(f, i) ==
    /\ last.op = "none"
    /\ LET r == truthValue(f, i, loop, MaxDepth)
       IN  /\ loop' = r.loop
           /\ last' = Call("truthValue", f, i, r)
    /\ UNCHANGED <<literals, traceVector, lasso, threads>>

CheckTruth(f) ==
    /\ last.op = "none"
    /\ LET r == check_truth(f, loop)
       IN  /\ loop' = r.loop
           /\ last' = Call("check_truth", f, 0, r)
    /\ UNCHANGED <<literals, traceVector, lasso, threads>>

CheckTruth1(f) ==
    /\ last.op = "none"
    /\ LET r == check_truth1(f, loop)
       IN  /\ loop' = r.loop
           /\ last' = Call("check_truth1", f, 0, r)
    /\ UNCHANGED <<literals, traceVector, lasso, threads>>

\* the caller takes the returned value and goes on to its next query
Return ==
    /\ last.op # "none"
    /\ last' = NoCall
    /\ UNCHANGED <<literals, traceVector, lasso, loop, threads>>

Next ==
    \/ \E f \in Formulas(literals), i \in 0..(traceLength - 1) : TruthValue(f, i)
    \/ \E f \in Formulas(literals) : CheckTruth(f)
    \/ \E f \in Formulas(literals) : CheckTruth1(f)
    \/ Return

Spec == Init /\ [][Next]_vars


\* indices next to the trace on either side
IndicesOutside ==
    {-2, -1, traceLength, traceLength + 1}

\* the queries a caller can make that the evaluator has no answer for: a
\* formula over an undeclared atom, a point query outside the trace
NextErr ==
    \/ \E f \in FormulasUndeclared, i \in 0..(traceLength - 1) : TruthValue(f, i)
    \/ \E f \in FormulasUndeclared : CheckTruth(f)
    \/ \E f \in FormulasUndeclared : CheckTruth1(f)
    \/ \E f \in Formulas(literals), i \in IndicesOutside : TruthValue(f, i)
    \/ Return

\* the traces over the single literal p
InitErr == Init /\ literals = <<"p">>

SpecErr == InitErr /\ [][NextErr]_vars


\* the texts handed to Trace: up to MaxText characters of states, then no
\* suffix, a lasso suffix, or a suffix that is cut short
StateTexts ==
    UNION {[1..n -> {"0", "1", "T", ",", ";"}] : n \in 0..MaxText}

LassoSuffixes ==
    {<<>>, <<":", ":", "0">>, <<":", ":", "1">>, <<":", ":", "2">>,
     <<":", ":", "-", "1">>, <<":", ":">>, <<":", "1">>}

\* no Trace object yet
InitCtor ==
    /\ literals = <<>>
    /\ traceVector = <<>>
    /\ lasso = 0
    /\ loop = FALSE
    /\ last = NoCall
    /\ threads = [t \in Threads |-> Idle]

\* Trace(data, Id, Lit): the object's fields are set when the constructor
\* returns; when it raises there is no object
Construct(data, Lit) ==
    /\ last.op = "none"
    /\ LET r == __init__(data, Lit)
       IN  /\ IF r.err = "ok"
              THEN /\ literals' = r.literals
                   /\ traceVector' = r.traceVector
                   /\ lasso' = r.lasso
              ELSE UNCHANGED <<literals, traceVector, lasso>>
           /\ last' = [op |-> "Trace", f |-> data, i |-> 0, loop0 |-> FALSE,
                       val |-> FALSE, err |-> r.err]
    /\ loop' = FALSE
    /\ UNCHANGED threads

NextCtor ==
    \E body \in StateTexts, suffix \in LassoSuffixes,
       Lit \in {None} \cup LiteralLists :
        Construct(body \o suffix, Lit)

SpecCtor == InitCtor /\ [][NextCtor]_vars


\* the formulas of the queries that threads make
FormulasShared ==
    {Un(op, Atom("p")) : op \in {"F", "G"}}
    \cup {Un(op, Un("X", Atom("p"))) : op \in {"F", "G"}}
    \cup {Un("X", Un("F", Atom("p")))}

\* thread t after a piece c of its evaluation: finished when no frame is
\* left
Advanced(th, c) ==
    [th EXCEPT !.status = IF c.stack = <<>> THEN "done" ELSE "running",
               !.stack = c.stack, !.ret = c.ret, !.err = c.err,
               !.wraps = c.wraps, !.wraps1 = c.wraps1,
               !.visited = c.visited, !.looked = c.looked,
               !.index = c.index]

\* a running thread other than t sees self.loop change under it
Disturbed(th, lp) ==
    IF th.status = "running" /\ lp # loop
    THEN [th EXCEPT !.disturbed = TRUE] ELSE th

\* a check_truth1 that leaves self.loop as it finds it
flag_at_start_kept(op, lp) == lp

\* self.loop when the evaluation begins: check_truth1 assigns False first
flag_at_start(op, lp) == IF op = "check_truth1" THEN FALSE ELSE lp

\* thread t calls check_truth1(f) or check_truth(f) (i = 0) or
\* truthValue(f, i), and runs up to its first access to self.loop; the
\* threads are numbered in the order of their calls
StartQuery(t, op, f, i) ==
    /\ threads[t].status = "idle"
    /\ \A u \in Threads : u < t => threads[u].status # "idle"
    /\ LET lp0 == flag_at_start(op, loop)
           c == sweep(op, f,
                      [stack |-> <<frame(f, i)>>, ret |-> FALSE, err |-> "ok",
                       loop |-> lp0, wraps |-> 0, wraps1 |-> 0,
                       visited |-> {i}, looked |-> {}, index |-> i])
           th == [Idle EXCEPT !.op = op, !.f = f, !.i = i, !.loop0 = loop]
       IN  /\ loop' = c.loop
           /\ threads' = [u \in Threads |->
                            IF u = t THEN Advanced(th, c)
                            ELSE Disturbed(threads[u], c.loop)]
    /\ UNCHANGED <<literals, traceVector, lasso, last>>

\* thread t calls next at the last index and runs up to its next access to
\* self.loop
StepThread(t) ==
    /\ threads[t].status = "running"
    /\ LET th == threads[t]
           c == sweep(th.op, th.f,
                      step([stack |-> th.stack, ret |-> th.ret, err |-> th.err,
                            loop |-> loop, wraps |-> th.wraps,
                            wraps1 |-> th.wraps1, visited |-> th.visited,
                            looked |-> th.looked, index |-> th.index]))
       IN  /\ loop' = c.loop
           /\ threads' = [u \in Threads |->
                            IF u = t THEN Advanced(th, c)
                            ELSE Disturbed(threads[u], c.loop)]
    /\ UNCHANGED <<literals, traceVector, lasso, last>>

NextShared ==
    \/ \E t \in Threads, f \in FormulasShared : StartQuery(t, "check_truth1", f, 0)
    \/ \E t \in Threads, f \in FormulasShared, i \in 0..(traceLength - 1) :
          StartQuery(t, "truthValue", f, i)
    \/ \E t \in Threads : StepThread(t)

SpecShared == InitErr /\ [][NextShared]_vars

\* the formulas of the queries of a single caller followed frame by frame:
\* those over p, and past operators nested in one another
FormulasFrames ==
    FormulasP
    \cup {Un(op, Un(g, Atom("p"))) : op \in {"Y", "O", "H"}, g \in {"Y", "O", "!"}}
    \cup {Bin("S", Atom("p"), Un("Y", Atom("p"))),
          Bin("S", Un("O", Atom("p")), Atom("p")),
          Bin("&", Un("H", Atom("p")), Bin("S", Atom("TRUE"), Atom("p")))}

\* the caller takes the value of its finished query
Collect(t) ==
    /\ threads[t].status = "done"
    /\ threads' = [threads EXCEPT ![t] = Idle]
    /\ UNCHANGED <<literals, traceVector, lasso, loop, last>>

\* one caller, one query after the other
NextFrames ==
    \/ \E f \in FormulasFrames : StartQuery(1, "check_truth1", f, 0)
    \/ \E f \in FormulasFrames : StartQuery(1, "check_truth", f, 0)
    \/ \E f \in FormulasFrames, i \in 0..(traceLength - 1) :
          StartQuery(1, "truthValue", f, i)
    \/ StepThread(1)
    \/ Collect(1)

SpecFrames == InitErr /\ [][NextFrames]_vars


(***************************************************************************)
(* Properties.                                                             *)
(***************************************************************************)
\* the value, and the whole result, of truthValue(f, i) run with the flag lp
Val(f, i, lp) == truthValue(f, i, lp, MaxDepth).val
Res(f, i, lp) == truthValue(f, i, lp, MaxDepth)

Returned(op) == last.op = op /\ last.err = "ok"

Wrapped == last.loop0 = FALSE /\ loop = TRUE

\* the flag with which index k is evaluated when the indices 0..k-1 have
\* been evaluated one after the other, starting with the flag lp
RECURSIVE SweepFlag(_, _, _)
SweepFlag(f, k, lp) ==
    IF k = 0 THEN lp ELSE Res(f, k - 1, SweepFlag(f, k - 1, lp)).loop

HoldsAtEveryIndex(f, lp) ==
    \A k \in 0..(traceLength - 1) : Val(f, k, SweepFlag(f, k, lp))

\* C1: check_truth(f) returns TRUE exactly when truthValue(f, i) is TRUE at
\* every index i of 0..traceLength-1, the indices being evaluated one after
\* the other on the Trace, and FALSE otherwise.
C1_CheckTruthIsConjunction ==
    Returned("check_truth") =>
        last.val = HoldsAtEveryIndex(last.f, last.loop0)

\* a sweep that holds at index 0 and fails at a later index
C1_Witness ==
    /\ Returned("check_truth")
    /\ ~last.val
    /\ Val(last.f, 0, last.loop0)

\* C2: check_truth1(f) returns what truthValue(f, 0) returns when started
\* with loop = FALSE, whatever the flag was before the call: a value that
\* depends on f, the states and the lasso index only.
C2_CheckTruth1ResetsLoop ==
    last.op = "check_truth1" =>
        /\ last.err = "ok"
        /\ last.val = Val(last.f, 0, FALSE)
        /\ loop = Res(last.f, 0, FALSE).loop

\* check_truth1 called with the flag set by an earlier query, on a formula
\* whose value at index 0 differs between the two values of the flag
C2_Witness ==
    /\ Returned("check_truth1")
    /\ last.loop0 = TRUE
    /\ Val(last.f, 0, TRUE) # last.val

\* C3: every check_truth(f) begins its evaluation with loop = FALSE.
C3_CheckTruthStartsUnset ==
    last.op = "check_truth" => last.loop0 = FALSE

\* C5: truthValue(!f, i) is the negation of truthValue(f, i), both run from
\* the same value of the flag.
C5_Duality ==
    Returned("truthValue") =>
        Val(Un("!", last.f), last.i, last.loop0) = ~last.val

\* a future formula that took the wrap and came out TRUE
C5_Witness ==
    /\ Returned("truthValue")
    /\ Wrapped
    /\ last.val
    /\ ~Val(Un("!", last.f), last.i, last.loop0)

\* C6: G(f) evaluates as the negation of F(!f), and F(f) as U(TRUE, f), each
\* pair run at the same index from the same value of the flag.
C6_DerivedOperators ==
    Returned("truthValue") =>
        /\ label(last.f) = "G" =>
              last.val = ~Val(Un("F", Un("!", left(last.f))), last.i, last.loop0)
        /\ label(last.f) = "F" =>
              last.val = Val(Bin("U", Atom("TRUE"), left(last.f)), last.i, last.loop0)

\* G(f) found to hold at an index before the last one, through the wrap
C6_Witness ==
    /\ Returned("truthValue")
    /\ label(last.f) = "G"
    /\ last.i < traceLength - 1
    /\ Wrapped
    /\ last.val

\* C7: truthValue(U(a,b), i) equals truthValue(b, i) or (truthValue(a, i) and
\* next(i) # -1 and truthValue(U(a,b), next(i))), the operands and next(i)
\* taken from the flag the call started with and the unrolled call from the
\* flag next(i) leaves.
C7_UntilUnrolling ==
    Returned("truthValue") /\ label(last.f) = "U" =>
        LET a == left(last.f)
            b == right(last.f)
            n == next(last.i, last.loop0)
        IN  last.val =
              (Val(b, last.i, last.loop0)
               \/ (/\ Val(a, last.i, last.loop0)
                   /\ n.idx # -1
                   /\ Val(last.f, n.idx, n.loop)))

\* C8: every query returns a value: no evaluation nests MaxDepth truthValue
\* frames (an unrolling that went on forever would), and none ends in an error.
C8_Terminates ==
    last.op # "none" => last.err = "ok"

\* U or F whose right-hand operand never holds on a trace of several states:
\* the evaluation took the wrap, ran out of successors and returned FALSE
C8_Witness ==
    /\ Returned("truthValue")
    /\ label(last.f) \in {"U", "F"}
    /\ Wrapped
    /\ ~last.val
    /\ traceLength > 1

AlwaysFalse(a) ==
    /\ inTable(a, 0)
    /\ \A t \in 0..(traceLength - 1) : ~table(a, t)

\* C9: F(p) is FALSE at every index when p is FALSE at every state, and
\* X(FALSE) is FALSE at every index, for either value of the flag.
C9_NoContinuationIsFalse ==
    last.op = "truthValue" =>
        /\ (/\ label(last.f) = "F"
            /\ _isLeaf(left(last.f))
            /\ AlwaysFalse(label(left(last.f)))) => (last.err = "ok" /\ ~last.val)
        /\ last.f = Un("X", Atom("FALSE")) => (last.err = "ok" /\ ~last.val)

\* F(p) at the last index of a trace on which p never holds, the wrap taken
C9_Witness ==
    /\ Returned("truthValue")
    /\ last.f = Un("F", Atom("p"))
    /\ AlwaysFalse("p")
    /\ last.i = traceLength - 1
    /\ Wrapped
    /\ ~last.val

HoldsSomewhere(a, from) == \E j \in from..(traceLength - 1) : table(a, j)
HoldsEverywhere(a) == \A j \in 0..(traceLength - 1) : table(a, j)

DeclaredLeaf(f) == _isLeaf(f) /\ inTable(label(f), 0)

Min(a, b) == IF a < b THEN a ELSE b

\* C12: for a declared literal p, check_truth1(G(p)) returns TRUE exactly
\* when p is TRUE at every state of the trace, whatever the lasso index.
C12_GloballyAtom ==
    (/\ last.op = "check_truth1"
     /\ label(last.f) = "G"
     /\ DeclaredLeaf(left(last.f))) =>
        /\ last.err = "ok"
        /\ last.val = HoldsEverywhere(label(left(last.f)))

\* G(p) refuted by a state past index 0 on a trace that loops back past
\* index 0 as well
C12_Witness ==
    /\ Returned("check_truth1")
    /\ label(last.f) = "G"
    /\ DeclaredLeaf(left(last.f))
    /\ lasso > 0
    /\ table(label(left(last.f)), 0)
    /\ ~last.val

\* C13: for a declared literal p, truthValue(F(p), i) started with
\* loop = FALSE is TRUE exactly when p is TRUE at some index j with
\* j >= min(i, lasso), and check_truth1(F(p)) is TRUE exactly when p is
\* TRUE at some state of the trace.
C13_EventuallyAtom ==
    (/\ last.op # "none"
     /\ label(last.f) = "F"
     /\ DeclaredLeaf(left(last.f))) =>
        /\ (last.op = "truthValue" /\ last.loop0 = FALSE) =>
              /\ last.err = "ok"
              /\ last.val = HoldsSomewhere(label(left(last.f)),
                                           Min(last.i, lasso))
        /\ last.op = "check_truth1" =>
              /\ last.err = "ok"
              /\ last.val = HoldsSomewhere(label(left(last.f)), 0)

\* F(p) asked past the lasso index, p holding only before the lasso index:
\* FALSE although p holds somewhere on the trace
C13_Witness ==
    /\ Returned("truthValue")
    /\ label(last.f) = "F"
    /\ DeclaredLeaf(left(last.f))
    /\ last.loop0 = FALSE
    /\ last.i > 0
    /\ lasso > 0
    /\ HoldsSomewhere(label(left(last.f)), 0)
    /\ ~last.val

\* C14: truthValue(X(f), traceLength-1) started with loop = FALSE returns
\* what truthValue(f, lasso) returns when started with loop = FALSE.
C14_NextWrapsAtEnd ==
    (/\ last.op = "truthValue"
     /\ label(last.f) = "X"
     /\ last.i = traceLength - 1
     /\ last.loop0 = FALSE) =>
        /\ last.err = "ok"
        /\ last.val = Val(left(last.f), lasso, FALSE)
        /\ loop = Res(left(last.f), lasso, FALSE).loop

\* X(f) at the last index of a trace of several states that loops back to
\* an inner state, f holding there and not at the last index
C14_Witness ==
    /\ Returned("truthValue")
    /\ label(last.f) = "X"
    /\ last.i = traceLength - 1
    /\ last.loop0 = FALSE
    /\ lasso < traceLength - 1
    /\ last.val
    /\ ~Val(left(last.f), last.i, FALSE)

\* C15: truthValue(Y(f), 0) returns FALSE for every formula f, for either
\* value of the flag, and leaves the flag as it was.
C15_YesterdayAtStart ==
    (/\ last.op = "truthValue"
     /\ label(last.f) = "Y"
     /\ last.i = 0) =>
        /\ last.err = "ok"
        /\ ~last.val
        /\ loop = last.loop0

\* Y(f) at index 0 for an operand that holds at index 0, the flag set
C15_Witness ==
    /\ Returned("truthValue")
    /\ label(last.f) = "Y"
    /\ last.i = 0
    /\ last.loop0 = TRUE
    /\ Val(left(last.f), 0, TRUE)
    /\ ~last.val

\* Y, and S for its left operand, do not evaluate the operand at index 0
OperandSkippedAtStart(f) ==
    \/ label(f) = "Y"
    \/ label(f) = "S" /\ left(f) = Atom("r")

\* C16: a query that evaluates a leaf whose label is not a declared literal
\* (nor TRUE/FALSE) ends in the KeyError of the table lookup, whichever
\* operators enclose the leaf and whichever of truthValue, check_truth and
\* check_truth1 was called; it returns no boolean.
C16_UnknownAtomPropagates ==
    (/\ last.op # "none"
     /\ last.f \in FormulasUndeclared
     /\ ~(OperandSkippedAtStart(last.f) /\ last.i = 0)) =>
        last.err = "KeyError"

\* the whole-trace query check_truth1 on a formula that holds the
\* undeclared leaf two operators deep, started with the flag set
C16_Witness ==
    /\ last.op = "check_truth1"
    /\ last.f = Un("G", Un("X", Atom("r")))
    /\ last.loop0 = TRUE
    /\ last.err = "KeyError"

\* C19: truthValue(f, i) called with i outside 0..traceLength-1 ends in an
\* error for every formula f; it returns no boolean.
C19_IndexOutsideIsError ==
    (/\ last.op = "truthValue"
     /\ last.i \notin 0..(traceLength - 1)) =>
        last.err # "ok"

\* C17: every Trace that the constructor returns has
\* 0 <= lasso <= traceLength - 1.
C17_LassoInsideTrace ==
    (last.op = "Trace" /\ last.err = "ok") =>
        lasso \in 0..(traceLength - 1)

\* C18: the constructor rejects the empty trace text with an error.
C18_EmptyTextRejected ==
    (last.op = "Trace" /\ last.f = <<>>) => last.err # "ok"

\* thread t made its query with no other thread on the Trace
Alone(t) == \A u \in Threads \ {t} : threads[u].status = "idle"

\* the value a finished query returns when no other evaluation runs
AloneResult(th) ==
    CASE th.op = "check_truth1" -> check_truth1(th.f, th.loop0)
      [] th.op = "check_truth" -> check_truth(th.f, th.loop0)
      [] OTHER -> truthValue(th.f, th.i, th.loop0, MaxDepth)

C20_OnlySharedLoopInterferes ==
    \A t \in Threads :
        (threads[t].status = "done" /\ ~threads[t].disturbed) =>
            /\ threads[t].err = AloneResult(threads[t]).err
            /\ threads[t].ret = AloneResult(threads[t]).val

\* two evaluations interleaved on the Trace, one of which returned a value
\* that differs from the value it returns when run alone
C20_Witness ==
    \E t \in Threads :
        /\ threads[t].status = "done"
        /\ threads[t].disturbed
        /\ threads[t].err = "ok"
        /\ AloneResult(threads[t]).err = "ok"
        /\ threads[t].ret # AloneResult(threads[t]).val

\* C21: next(i) returns i + 1 and leaves the flag as it is when
\* i < traceLength - 1; at the last index it sets the flag and returns the
\* lasso index when the flag is unset, and returns -1 and leaves the flag
\* set when it is set; so a second call at the last index, with the flag the
\* first call left, returns -1.
C21_NextOneShot ==
    \A pos \in 0..(traceLength - 1), lp \in BOOLEAN :
        /\ pos < traceLength - 1 =>
              next(pos, lp) = [idx |-> pos + 1, loop |-> lp]
        /\ pos = traceLength - 1 =>
              /\ next(pos, FALSE) = [idx |-> lasso, loop |-> TRUE]
              /\ next(pos, TRUE) = [idx |-> -1, loop |-> TRUE]
              /\ next(pos, next(pos, lp).loop).idx = -1

\* a query on a longer trace with an inner lasso index whose unrolling
\* walked to the last index, took the wrap there and came out FALSE: next
\* returned successors, the lasso index and -1
C21_Witness ==
    /\ Returned("truthValue")
    /\ label(last.f) = "F"
    /\ last.i < traceLength - 1
    /\ lasso > 0
    /\ Wrapped
    /\ ~last.val
    /\ next(traceLength - 1, last.loop0).idx = lasso
    /\ next(traceLength - 1, loop).idx = -1

\* C25: for declared literals a and b, truthValue(U(a, b), i) is TRUE when
\* b is TRUE at some index j of i..traceLength-1 and a is TRUE at every
\* index of i..j-1, for either value of the flag.
C25_UntilWitnessInTrace ==
    (/\ last.op = "truthValue"
     /\ label(last.f) = "U"
     /\ DeclaredLeaf(left(last.f))
     /\ DeclaredLeaf(right(last.f))
     /\ \E j \in last.i..(traceLength - 1) :
           /\ table(label(right(last.f)), j)
           /\ \A k \in last.i..(j - 1) : table(label(left(last.f)), k)) =>
        (last.err = "ok" /\ last.val)

\* U(a, b) asked with the flag set, b holding only at the last index, two
\* steps ahead
C25_Witness ==
    /\ Returned("truthValue")
    /\ label(last.f) = "U"
    /\ DeclaredLeaf(left(last.f))
    /\ DeclaredLeaf(right(last.f))
    /\ last.loop0 = TRUE
    /\ last.i = 0
    /\ traceLength = 3
    /\ \A k \in 0..1 : ~table(label(right(last.f)), k)
    /\ last.val

\* C26: truthValue(S(l, r), i) equals truthValue(r, i) or (i > 0 and
\* truthValue(l, i) and truthValue(S(l, r), i-1)), each of these the value of
\* the point query run from the flag the call started with.
C26_SinceUnrolling ==
    (Returned("truthValue") /\ label(last.f) = "S") =>
        LET l == left(last.f)
            r == right(last.f)
            lp == last.loop0
        IN  last.val =
              (Val(r, last.i, lp)
               \/ (/\ last.i > 0
                   /\ Val(l, last.i, lp)
                   /\ Val(last.f, last.i - 1, lp)))

\* C27: check_truth(f) started with loop = FALSE returns TRUE exactly when
\* truthValue(f, i) started with loop = FALSE returns TRUE at every index i.
C27_SweepEqualsFreshPoints ==
    (Returned("check_truth") /\ last.loop0 = FALSE) =>
        last.val = \A k \in 0..(traceLength - 1) : Val(last.f, k, FALSE)

\* C28: truthValue(f & !f, i) is FALSE and truthValue(f & f, i) equals
\* truthValue(f, i), all three run from the same value of the flag.
C28_ConjunctionCoherent ==
    Returned("truthValue") =>
        /\ ~Val(Bin("&", last.f, Un("!", last.f)), last.i, last.loop0)
        /\ Val(Bin("&", last.f, last.f), last.i, last.loop0) = last.val

\* f is built from atoms, TRUE/FALSE, the connectives and X, U, F, G
RECURSIVE FutureOnly(_)
FutureOnly(f) ==
    CASE label(f) \in {"!", "X", "F", "G"} -> FutureOnly(left(f))
      [] label(f) \in {"&", "|", "=>", "U"} ->
           FutureOnly(left(f)) /\ FutureOnly(right(f))
      [] label(f) \in {"Y", "O", "H", "S"} -> FALSE
      [] OTHER -> TRUE

\* the k-th position after i on the infinite word: states 0..traceLength-1,
\* then states lasso..traceLength-1 for ever
RECURSIVE Position(_, _)
Position(i, k) ==
    IF k = 0 THEN i
    ELSE LET q == Position(i, k - 1)
         IN  IF q < traceLength - 1 THEN q + 1 ELSE lasso

\* the LTL truth value of f at position i of the infinite word; the first
\* traceLength positions from i on hold every state met from i on
RECURSIVE Holds(_, _)
Holds(f, i) ==
    CASE label(f) = "TRUE" -> TRUE
      [] label(f) = "FALSE" -> FALSE
      [] label(f) = "!" -> ~Holds(left(f), i)
      [] label(f) = "&" -> Holds(left(f), i) /\ Holds(right(f), i)
      [] label(f) = "|" -> Holds(left(f), i) \/ Holds(right(f), i)
      [] label(f) = "=>" -> (Holds(left(f), i) => Holds(right(f), i))
      [] label(f) = "X" -> Holds(left(f), Position(i, 1))
      [] label(f) = "F" ->
           \E k \in 0..(traceLength - 1) : Holds(left(f), Position(i, k))
      [] label(f) = "G" ->
           \A k \in 0..(traceLength - 1) : Holds(left(f), Position(i, k))
      [] label(f) = "U" ->
           \E k \in 0..(traceLength - 1) :
               /\ Holds(right(f), Position(i, k))
               /\ \A j \in 0..(k - 1) : Holds(left(f), Position(i, j))
      [] OTHER -> table(label(f), i)

\* C29: for every formula built from atoms, TRUE/FALSE, the connectives and
\* X, U, F, G, check_truth1(f) returns the LTL truth value of f at position
\* 0 of the infinite word of the trace.
C29_AgreesWithLTL ==
    (Returned("check_truth1") /\ FutureOnly(last.f)) =>
        last.val = Holds(last.f, 0)

\* C30: check_truth(f) returns what it returns on a freshly constructed
\* Trace, whatever queries were made on the Trace before.
C30_HistoryIndependent ==
    Returned("check_truth") => last.val = check_truth(last.f, FALSE).val

InTrace == 0..(traceLength - 1)

\* C22: in a query started at an index of the trace, truthValue is only
\* ever called with an index of 0..traceLength-1 and the table is only ever
\* looked up at such an index: the -1 of pre and next is never passed on
\* (and no lookup fails).
C22_IndexSafety ==
    threads[1].status # "idle" =>
        /\ threads[1].visited \subseteq InTrace
        /\ threads[1].looked \subseteq InTrace
        /\ \A k \in 1..Len(threads[1].stack) : threads[1].stack[k].i \in InTrace
        /\ threads[1].err = "ok"

\* a finished query that walked back to index 0 with Y/O/H/S, or took both
\* kinds of step from the last index, and looked the table up at every index
C22_Witness ==
    /\ threads[1].status = "done"
    /\ traceLength = 3
    /\ lasso > 0
    /\ threads[1].wraps = 1
    /\ threads[1].wraps1 > 0
    /\ threads[1].looked = InTrace
    /\ ~threads[1].ret

\* f is built from atoms, TRUE/FALSE, the connectives and Y, O, H, S
RECURSIVE PastOnly(_)
PastOnly(f) ==
    CASE label(f) \in {"!", "Y", "O", "H"} -> PastOnly(left(f))
      [] label(f) \in {"&", "|", "=>", "S"} ->
           PastOnly(left(f)) /\ PastOnly(right(f))
      [] label(f) \in {"X", "F", "G", "U"} -> FALSE
      [] OTHER -> TRUE

\* C23: truthValue(f, i) for a formula f without X, U, F, G leaves the flag
\* as it was, calls truthValue with indices <= i only, and returns the
\* value it returns from the other value of the flag.
C23_PastLeavesLoopAlone ==
    (/\ threads[1].status = "done"
     /\ threads[1].op = "truthValue"
     /\ PastOnly(threads[1].f)) =>
        /\ threads[1].err = "ok"
        /\ loop = threads[1].loop0
        /\ \A j \in threads[1].visited : j <= threads[1].i
        /\ threads[1].wraps = 0 /\ threads[1].wraps1 = 0
        /\ threads[1].ret = Val(threads[1].f, threads[1].i, ~threads[1].loop0)

\* S over a nested past operand, asked at the last index of a trace of three
\* states with the flag set: walked back over every index
C23_Witness ==
    /\ threads[1].status = "done"
    /\ threads[1].op = "truthValue"
    /\ label(threads[1].f) = "S"
    /\ PastOnly(threads[1].f)
    /\ threads[1].i = 2
    /\ threads[1].loop0 = TRUE
    /\ threads[1].visited = 0..2
    /\ threads[1].ret

\* C24: a step of a query changes no field of the Trace other than loop,
\* and the formula passed in stays as it was: the frame of the query still
\* holds it, the nodes F and G expand to being new ones.
C24_ReadOnlyButLoop ==
    [][/\ literals' = literals
       /\ traceVector' = traceVector
       /\ lasso' = lasso
       /\ threads'[1].status = "running" =>
             threads'[1].stack[1].f = threads'[1].f]_vars

\* a G query stopped at its access to the flag: the frames of the nodes it
\* expanded to lie above the frame that holds the formula passed in
C24_Witness ==
    /\ threads[1].status = "running"
    /\ label(threads[1].f) = "G"
    /\ Len(threads[1].stack) > 3
    /\ threads[1].stack[1].f = threads[1].f
    /\ label(top(threads[1]).f) = "U"

====
